---- MODULE Spec2Model ----
(***************************************************************************)
(* The renewable-energy dashboard of mitigation.py.                        *)
(*                                                                         *)
(* create_renewable_dashboard(dataset, color_palette) filters the dataset  *)
(* once, derives the facet lists and the default selection, and registers  *)
(* the callback update_graphs, which the browser fires once on page load   *)
(* with the layout's values and then on every control change.              *)
(*                                                                         *)
(* Strings are tuples of one-character strings, so that str.contains is a  *)
(* computed substring search.  A State is the rank of its name in          *)
(* lexicographic order, so that sorted() and groupby's key order are <.    *)
(***************************************************************************)
EXTENDS Naturals, Integers, Sequences, FiniteSets, TLC

VARIABLES
    dataset,        \* the DataFrame handed to create_renewable_dashboard
    pc,             \* "start" | "failed" | "built" | "serving"
    error,          \* the exception the last operation raised, or "none"
    renewable,      \* the filtered DataFrame the callback closes over
    years,          \* sorted(renewable['Fiscal Year'].unique())
    sources,        \* sorted(renewable['Source'].unique())
    all_states,     \* sorted(renewable['State'].unique())
    top_10_states,  \* state_counts.head(10)['State'].tolist()
    year_value,     \* value of 'year-slider'
    state_value,    \* value of 'state-selector'
    source_value,   \* value of 'source-selector'
    tableA,         \* groupby(['State', 'Source']).size() of the last callback
    tableB          \* groupby(['Fiscal Year', 'Source']).size() of the last callback

vars == <<dataset, pc, error, renewable, years, sources, all_states,
          top_10_states, year_value, state_value, source_value, tableA, tableB>>

(***************************************************************************)
(* Bounds of the model.                                                    *)
(***************************************************************************)
MaxRecords == 2

NumTopStates == 11

MaxLight == 2

(***************************************************************************)
(* Values.                                                                 *)
(***************************************************************************)
\* A missing Source as pandas holds it (float nan), and the null that JSON
\* carries in its place to and from the browser (None).
NaN == <<"NaN">>

None == <<"None">>

Solar == <<"S", "o", "l", "a", "r">>

Wind == <<"W", "i", "n", "d">>

RecSold == <<"R", "E", "C", " ", "S", "O", "L", "D">>

GasConsumption == <<"G", "a", "s", " ", "c", "o", "n", "s", "u", "m", "p", "t", "i", "o", "n">>

Verification == <<"V", "e", "r", "i", "f", "i", "c", "a", "t", "i", "o", "n">>

StateCodes == {1, 2}

\* the years a request can name
YearValues == {2019, 2020, 2021}

\* the years that have rows
RecordYears == {2020, 2021}

Rec(src, st, yr) == [Source |-> src, State |-> st, FiscalYear |-> yr]

\* The rows a loaded dataset is drawn from: one renewable source in every
\* state and year with rows, a second one, the three other sources and the
\* missing Source in one state and year.
RecordUniverse ==
    {Rec(Solar, st, yr) : st \in StateCodes, yr \in RecordYears}
    \cup {Rec(src, 1, 2020) : src \in {Wind, RecSold, GasConsumption, Verification, NaN}}

\* The labels a request can name whatever the options are: one that a
\* dashboard offers, one that the filter removes.
SourceInputs == {Solar, RecSold}

(***************************************************************************)
(* Helpers.                                                                *)
(***************************************************************************)
Range(s) == {s[i] : i \in DOMAIN s}

MinOf(a, b) == IF a <= b THEN a ELSE b

\* min(years), max(years): the callers guard against the empty list
Min(S) == CHOOSE x \in S : \A y \in S : x <= y

Max(S) == CHOOSE x \in S : \A y \in S : y <= x

\* sorted() of a set of integers
SortedInts(S) ==
    [i \in 1..Cardinality(S) |->
        CHOOSE x \in S : Cardinality({y \in S : y < x}) = i - 1]

(***************************************************************************)
(* Strings.                                                                *)
(***************************************************************************)
\* The characters of the source labels, in code-point order.
CodePointOrder ==
    <<" ", "C", "D", "E", "G", "L", "O", "R", "S", "V", "W",
      "a", "c", "d", "e", "f", "i", "l", "m", "n", "o", "p", "r", "s", "t", "u">>

Ord(c) == CHOOSE i \in DOMAIN CodePointOrder : CodePointOrder[i] = c

UpperCase == <<"C", "D", "E", "G", "L", "O", "R", "S", "V", "W">>

LowerCase == <<"c", "d", "e", "g", "l", "o", "r", "s", "v", "w">>

\* case folding of one character (re.IGNORECASE)
Lower(c) ==
    IF \E i \in DOMAIN UpperCase : UpperCase[i] = c
    THEN LowerCase[CHOOSE i \in DOMAIN UpperCase : UpperCase[i] = c]
    ELSE c

Fold(s, case) == IF case THEN s ELSE [i \in DOMAIN s |-> Lower(s[i])]

\* str < str, as sorted() compares two labels
StrLess(a, b) ==
    \E k \in 1..(Len(a) + 1) :
        /\ k <= Len(b)
        /\ \A j \in 1..(k - 1) : a[j] = b[j]
        /\ (k = Len(a) + 1 \/ Ord(a[k]) < Ord(b[k]))

\* sorted() of a set of labels; a single label is compared with nothing
SortedStrs(S) ==
    IF Cardinality(S) <= 1
    THEN [i \in 1..Cardinality(S) |-> CHOOSE x \in S : TRUE]
    ELSE [i \in 1..Cardinality(S) |->
            CHOOSE x \in S : Cardinality({y \in S : StrLess(y, x)}) = i - 1]

\* the alternatives of the pattern 'Consumption|Verification|Sold'
Pattern ==
    << <<"C", "o", "n", "s", "u", "m", "p", "t", "i", "o", "n">>,
       <<"V", "e", "r", "i", "f", "i", "c", "a", "t", "i", "o", "n">>,
       <<"S", "o", "l", "d">> >>

MatchAt(s, p, i) ==
    /\ i + Len(p) - 1 <= Len(s)
    /\ \A k \in 1..Len(p) : s[i + k - 1] = p[k]

RECURSIVE SearchFrom(_, _, _)
SearchFrom(s, alts, i) ==
    IF i > Len(s) THEN FALSE
    ELSE IF \E a \in alts : MatchAt(s, a, i) THEN TRUE
    ELSE SearchFrom(s, alts, i + 1)

\* Series.str.contains(pat, case=case, na=na) on one value
StrContains(s, pat, case, na) ==
    IF s = NaN THEN na
    ELSE SearchFrom(Fold(s, case), {Fold(pat[i], case) : i \in DOMAIN pat}, 1)

(***************************************************************************)
(* create_renewable_dashboard.                                             *)
(***************************************************************************)
\* ~dataset['Source'].str.contains(..., case=False, na=False) on one row
Keep(r) == ~StrContains(r.Source, Pattern, FALSE, FALSE)

\* variant: the filter with case=True
KeepCaseSensitive(r) == ~StrContains(r.Source, Pattern, TRUE, FALSE)

RenewableFilterCaseSensitive(ds) == SelectSeq(ds, KeepCaseSensitive)

\* dataset[~dataset['Source'].str.contains(..., case=False, na=False)]
RenewableFilter(ds) == SelectSeq(ds, Keep)

\* read_csv gives a column with no value at all the dtype float64, on which
\* the .str accessor raises
StrAccessorRaises(ds) ==
    /\ Len(ds) > 0
    /\ \A i \in DOMAIN ds : ds[i].Source = NaN

Unique(df, col) == {df[i][col] : i \in DOMAIN df}

\* sorted() compares, and nan < str raises
SortedRaises(S) == NaN \in S /\ Cardinality(S) >= 2

\* renewable.groupby('State').size().reset_index(name='count'):
\* one row per state, in ascending order of the key
GroupByState(df) ==
    LET keys == SortedInts(Unique(df, "State")) IN
    [i \in DOMAIN keys |->
        [State |-> keys[i],
         count |-> Cardinality({j \in DOMAIN df : df[j].State = keys[i]})]]

\* sort_values sorts with kind='quicksort', which is not stable: the order
\* among rows of equal count is open.  A tie rank orders the rows of equal
\* count; the ranks are the rotations of the row order and their reversals.
TieRanks(n) ==
    IF n = 0 THEN {<< >>}
    ELSE {[i \in 1..n |-> ((i - 1 + k) % n) + 1] : k \in 0..(n - 1)}
         \cup {[i \in 1..n |-> n - ((i - 1 + k) % n)] : k \in 0..(n - 1)}

\* variant: sort_values('count') without ascending=False
SortValuesAscending(sc, t) ==
    LET n == Len(sc)
        Before(p, q) ==
            \/ sc[p].count < sc[q].count
            \/ sc[p].count = sc[q].count /\ t[p] < t[q]
    IN [i \in 1..n |->
          sc[CHOOSE p \in 1..n : Cardinality({q \in 1..n : Before(q, p)}) = i - 1]]

\* state_counts.sort_values('count', ascending=False)
SortValues(sc, t) ==
    LET n == Len(sc)
        Before(p, q) ==
            \/ sc[p].count > sc[q].count
            \/ sc[p].count = sc[q].count /\ t[p] < t[q]
    IN [i \in 1..n |->
          sc[CHOOSE p \in 1..n : Cardinality({q \in 1..n : Before(q, p)}) = i - 1]]

TopN == 10

\* variant: no head()
HeadNoLimit(s, n) == s

\* DataFrame.head(n)
HeadN(s, n) == SubSeq(s, 1, MinOf(n, Len(s)))

\* state_counts.head(10)['State'].tolist()
TopStates(df, t) ==
    LET top == HeadN(SortValues(GroupByState(df), t), TopN) IN
    [i \in DOMAIN top |-> top[i].State]

\* variant: value=[min(years), min(years)]
LayoutYearValueMinOnly(ys) == <<Min(Range(ys)), Min(Range(ys))>>

\* value=[min(years), max(years)]
LayoutYearValue(ys) == <<Min(Range(ys)), Max(Range(ys))>>

create_renewable_dashboard ==
    /\ pc = "start"
    /\ UNCHANGED <<dataset, tableA, tableB>>
    /\ IF StrAccessorRaises(dataset)
       THEN /\ pc' = "failed"
            /\ error' = "AttributeError"
            /\ UNCHANGED <<renewable, years, sources, all_states, top_10_states,
                           year_value, state_value, source_value>>
       ELSE LET rn == RenewableFilter(dataset) IN
            /\ renewable' = rn
            /\ years' = SortedInts(Unique(rn, "FiscalYear"))
            /\ IF SortedRaises(Unique(rn, "Source"))
               THEN /\ pc' = "failed"
                    /\ error' = "TypeError"
                    /\ UNCHANGED <<sources, all_states, top_10_states,
                                   year_value, state_value, source_value>>
               ELSE /\ sources' = SortedStrs(Unique(rn, "Source"))
                    /\ all_states' = SortedInts(Unique(rn, "State"))
                    /\ \E t \in TieRanks(Cardinality(Unique(rn, "State"))) :
                           top_10_states' = TopStates(rn, t)
                    /\ IF Len(rn) = 0
                       THEN \* min(years) of the empty list
                            /\ pc' = "failed"
                            /\ error' = "ValueError"
                            /\ UNCHANGED <<year_value, state_value, source_value>>
                       ELSE /\ pc' = "built"
                            /\ error' = "none"
                            /\ year_value' = LayoutYearValue(years')
                            /\ state_value' = Range(top_10_states')
                            /\ source_value' = Range(sources')

(***************************************************************************)
(* update_graphs.                                                          *)
(***************************************************************************)
PaletteSize == 10

\* variant: < in place of <= at the upper end
InYearRangeExclusiveMax(r, years_range) ==
    r.FiscalYear >= years_range[1] /\ r.FiscalYear < years_range[2]

\* variant: the two ends put in order first
InYearRangeNormalised(r, years_range) ==
    /\ r.FiscalYear >= MinOf(years_range[1], years_range[2])
    /\ r.FiscalYear <= IF years_range[1] <= years_range[2]
                       THEN years_range[2] ELSE years_range[1]

\* (renewable['Fiscal Year'] >= years_range[0]) & (... <= years_range[1])
InYearRange(r, years_range) ==
    r.FiscalYear >= years_range[1] /\ r.FiscalYear <= years_range[2]

\* variant: an empty selection taken as no filter
IsinOrUnfiltered(x, values) == values = {} \/ x \in values

\* Series.isin(values) on one value: nan is in a list that holds nan, and
\* is not in one that holds None
Isin(x, values) == x \in values

\* the combination filter
Query(df, years_range, selected_states, selected_sources) ==
    LET Included(r) ==
            /\ InYearRange(r, years_range)
            /\ Isin(r.State, selected_states)
            /\ Isin(r.Source, selected_sources)
    IN SelectSeq(df, Included)

\* variant: one per group, as nunique of the key would give
GroupKeysOnly(rows) == 1

\* the size of one group
GroupSize(rows) == Cardinality(rows)

\* filtered_data.groupby(['State', 'Source']).size().reset_index(name='Count');
\* groupby drops the rows whose key is missing
GroupByStateSource(fd) ==
    LET kept == {i \in DOMAIN fd : fd[i].Source # NaN} IN
    {[State |-> k[1], Source |-> k[2],
      Count |-> GroupSize({i \in kept : fd[i].State = k[1] /\ fd[i].Source = k[2]})] :
        k \in {<<fd[i].State, fd[i].Source>> : i \in kept}}

\* filtered_data.groupby(['Fiscal Year', 'Source']).size().reset_index(name='Count')
GroupByYearSource(fd) ==
    LET kept == {i \in DOMAIN fd : fd[i].Source # NaN} IN
    {[FiscalYear |-> k[1], Source |-> k[2],
      Count |-> GroupSize({i \in kept : fd[i].FiscalYear = k[1] /\ fd[i].Source = k[2]})] :
        k \in {<<fd[i].FiscalYear, fd[i].Source>> : i \in kept}}

\* color_palette[:len(selected_sources)]: px takes the colour of a group at
\* an index modulo the length of the sequence, and raises on an empty one
\* as soon as there is a group to colour
PxRaises(table, selected_sources) ==
    /\ table # {}
    /\ MinOf(Cardinality(selected_sources), PaletteSize) = 0

\* variant: the callback filtering what the last callback left
update_graphs_narrowing(years_range, selected_states, selected_sources) ==
    LET filtered_data == Query(renewable, years_range, selected_states, selected_sources)
    IN /\ renewable' = filtered_data
       /\ error' = "none"
       /\ tableA' = GroupByStateSource(filtered_data)
       /\ tableB' = GroupByYearSource(filtered_data)
       /\ UNCHANGED <<dataset, years, sources, all_states, top_10_states>>

\* the callback: the combination filter, the two tables, the two charts
update_graphs(years_range, selected_states, selected_sources) ==
    LET filtered_data == Query(renewable, years_range, selected_states, selected_sources)
        a == GroupByStateSource(filtered_data)
        b == GroupByYearSource(filtered_data)
    IN /\ IF PxRaises(a, selected_sources) \/ PxRaises(b, selected_sources)
          THEN /\ error' = "ZeroDivisionError"
               /\ UNCHANGED <<tableA, tableB>>
          ELSE /\ error' = "none"
               /\ tableA' = a
               /\ tableB' = b
       /\ UNCHANGED <<dataset, renewable, years, sources, all_states, top_10_states>>

(***************************************************************************)
(* The browser: the page load and the three controls.                      *)
(***************************************************************************)
\* the layout's values as JSON carries them: nan goes out as null, and
\* null comes back as None
ToJson(values) == {IF v = NaN THEN None ELSE v : v \in values}

\* the callback's first firing, with the layout's values
PageLoad ==
    /\ pc = "built"
    /\ pc' = "serving"
    /\ source_value' = ToJson(source_value)
    /\ UNCHANGED <<year_value, state_value>>
    /\ update_graphs(year_value, state_value, source_value')

\* the values a request can carry for the year slider: the marks, and any
\* pair of them in either order
ChangeYear ==
    /\ pc = "serving"
    /\ \E lo \in YearValues, hi \in YearValues :
        /\ <<lo, hi>> # year_value
        /\ year_value' = <<lo, hi>>
        /\ UNCHANGED <<pc, state_value, source_value>>
        /\ update_graphs(year_value', state_value, source_value)

ChangeStates ==
    /\ pc = "serving"
    /\ \E selected \in SUBSET StateCodes :
        /\ selected # state_value
        /\ state_value' = selected
        /\ UNCHANGED <<pc, year_value, source_value>>
        /\ update_graphs(year_value, state_value', source_value)

ChangeSources ==
    /\ pc = "serving"
    /\ \E selected \in SUBSET (SourceInputs \cup ToJson(Range(sources))) :
        /\ selected # source_value
        /\ source_value' = selected
        /\ UNCHANGED <<pc, year_value, state_value>>
        /\ update_graphs(year_value, state_value, source_value')

(***************************************************************************)
(* Specifications.                                                         *)
(***************************************************************************)
Datasets == UNION {[1..n -> RecordUniverse] : n \in 0..MaxRecords}

InitWith(ds) ==
    /\ dataset = ds
    /\ pc = "start"
    /\ error = "none"
    /\ renewable = << >>
    /\ years = << >>
    /\ sources = << >>
    /\ all_states = << >>
    /\ top_10_states = << >>
    /\ year_value = << >>
    /\ state_value = {}
    /\ source_value = {}
    /\ tableA = {}
    /\ tableB = {}

Init == \E ds \in Datasets : InitWith(ds)

Next ==
    \/ create_renewable_dashboard
    \/ PageLoad
    \/ ChangeYear
    \/ ChangeStates
    \/ ChangeSources

Spec == Init /\ [][Next]_vars

\* Datasets with more states than the default selection holds: one row per
\* state, in ascending or descending order of the state, and a second row
\* for each state but the at most MaxLight states of `light`.
TopStateCodes == 1..NumTopStates

TopDataset(light, descending) ==
    LET n == NumTopStates
        extra == SortedInts(TopStateCodes \ light)
    IN [i \in 1..n |-> Rec(Solar, IF descending THEN n + 1 - i ELSE i, 2020)]
       \o [i \in DOMAIN extra |-> Rec(Solar, extra[i], 2020)]

TopDatasets ==
    {TopDataset(light, d) :
        light \in {l \in SUBSET TopStateCodes : Cardinality(l) <= MaxLight},
        d \in BOOLEAN}

InitTop == \E ds \in TopDatasets : InitWith(ds)

NextTop == create_renewable_dashboard

SpecTop == InitTop /\ [][NextTop]_vars

(***************************************************************************)
(* Properties.                                                             *)
(***************************************************************************)
Served == pc = "serving"

Constructed == pc \in {"built", "serving"}

\* the three keywords, and what it is for a label to contain one of them
\* at some offset, whatever the case of its letters
Keywords ==
    { <<"c", "o", "n", "s", "u", "m", "p", "t", "i", "o", "n">>,
      <<"v", "e", "r", "i", "f", "i", "c", "a", "t", "i", "o", "n">>,
      <<"s", "o", "l", "d">> }

ContainsKeyword(s) ==
    /\ s # NaN
    /\ s # None
    /\ \E kw \in Keywords : \E off \in 0..Len(s) :
          /\ off + Len(kw) <= Len(s)
          /\ \A k \in 1..Len(kw) : Lower(s[off + k]) = kw[k]

\* the inclusion predicate of the selection the controls hold
Satisfies(r) ==
    /\ year_value[1] <= r.FiscalYear
    /\ r.FiscalYear <= year_value[2]
    /\ r.State \in state_value
    /\ r.Source \in source_value

RECURSIVE SumCounts(_)
SumCounts(rows) ==
    IF rows = {} THEN 0
    ELSE LET r == CHOOSE x \in rows : TRUE IN r.Count + SumCounts(rows \ {r})

\* the number of rows of the working dataset with a state
CountOf(st) == Cardinality({i \in DOMAIN renewable : renewable[i].State = st})

\* the first row of the working dataset with a state
FirstRow(st) == Min({i \in DOMAIN renewable : renewable[i].State = st})

\* C1: the working dataset never holds a row whose Source contains
\* "Consumption", "Verification" or "Sold" in any case, and no row of
\* Table A or Table B counts such a Source.
C1_NoExcludedSource ==
    /\ \A i \in DOMAIN renewable : ~ContainsKeyword(renewable[i].Source)
    /\ \A row \in tableA : ~ContainsKeyword(row.Source)
    /\ \A row \in tableB : ~ContainsKeyword(row.Source)

C1_Witness ==
    /\ Served
    /\ \E i \in DOMAIN dataset : ContainsKeyword(dataset[i].Source)
    /\ \E v \in source_value : ContainsKeyword(v)
    /\ tableA # {}

\* C2: for the selection the callback was given, the counts of Table A and
\* the counts of Table B both add up to the number of rows of the working
\* dataset that satisfy the inclusion predicate.
C2_SumsAgree ==
    Served =>
        LET n == Cardinality({i \in DOMAIN renewable : Satisfies(renewable[i])}) IN
        SumCounts(tableA) = n /\ SumCounts(tableB) = n

C2_Witness ==
    /\ Served
    /\ Cardinality(tableA) # Cardinality(tableB)
    /\ \E row \in tableA : row.Count >= 2

\* C3: the default-states list has min(10, number of distinct states)
\* entries, all different, and no state left out of it has strictly more
\* rows than a state in it.
C3_TopStates ==
    Constructed =>
        LET present == Unique(renewable, "State")
            chosen == Range(top_10_states)
        IN /\ Len(top_10_states) = MinOf(10, Cardinality(present))
           /\ Cardinality(chosen) = Len(top_10_states)
           /\ chosen \subseteq present
           /\ \A out \in present \ chosen : \A in \in chosen :
                  CountOf(out) <= CountOf(in)

C3_Witness ==
    /\ Constructed
    /\ Cardinality(Unique(renewable, "State")) > 10
    /\ \E out \in Unique(renewable, "State") \ Range(top_10_states) :
          \A in \in Range(top_10_states) : CountOf(out) < CountOf(in)

\* C4: a row of the working dataset is counted in Table A and in Table B
\* exactly when yearMin <= Fiscal Year <= yearMax, its State is selected and
\* its Source is selected: each table holds, for each key, a row with the
\* number of satisfying rows of that key, and no row for a key without any.
C4_CountedIffSatisfies ==
    Served =>
        /\ \A row \in tableA :
              /\ row.Count > 0
              /\ row.Count = Cardinality({i \in DOMAIN renewable :
                    /\ Satisfies(renewable[i])
                    /\ renewable[i].State = row.State
                    /\ renewable[i].Source = row.Source})
        /\ \A row \in tableB :
              /\ row.Count > 0
              /\ row.Count = Cardinality({i \in DOMAIN renewable :
                    /\ Satisfies(renewable[i])
                    /\ renewable[i].FiscalYear = row.FiscalYear
                    /\ renewable[i].Source = row.Source})
        /\ \A i \in DOMAIN renewable :
              Satisfies(renewable[i]) <=>
                  /\ \E row \in tableA : /\ row.State = renewable[i].State
                                         /\ row.Source = renewable[i].Source
                  /\ \E row \in tableB : /\ row.FiscalYear = renewable[i].FiscalYear
                                         /\ row.Source = renewable[i].Source

C4_Witness ==
    /\ Served
    /\ year_value[1] < year_value[2]
    /\ \E row \in tableB : row.FiscalYear = year_value[2]
    /\ \E i \in DOMAIN renewable :
          /\ renewable[i].FiscalYear > year_value[2]
          /\ renewable[i].State \in state_value
          /\ renewable[i].Source \in source_value

\* C5: with no state selected or no source selected both tables are empty,
\* whatever the other controls hold, and the callback raises nothing.
C5_EmptySelection ==
    (Served /\ (state_value = {} \/ source_value = {})) =>
        tableA = {} /\ tableB = {} /\ error = "none"

C5_Witness ==
    /\ Served
    /\ source_value = {}
    /\ \E i \in DOMAIN renewable :
          /\ year_value[1] <= renewable[i].FiscalYear
          /\ renewable[i].FiscalYear <= year_value[2]
          /\ renewable[i].State \in state_value

\* C6: with yearMin > yearMax both tables are empty and the callback raises
\* nothing, whatever states and sources are selected.
C6_InvertedRange ==
    (Served /\ year_value[1] > year_value[2]) =>
        tableA = {} /\ tableB = {} /\ error = "none"

C6_Witness ==
    /\ Served
    /\ year_value[1] > year_value[2]
    /\ \E i \in DOMAIN renewable :
          /\ year_value[2] <= renewable[i].FiscalYear
          /\ renewable[i].FiscalYear <= year_value[1]
          /\ renewable[i].State \in state_value
          /\ renewable[i].Source \in source_value

\* C7: a row whose Source is missing is kept by the filter, and neither the
\* filter nor the construction after it fails because of such a row.
C7_MissingSourceRetained ==
    (pc # "start" /\ \E i \in DOMAIN dataset : dataset[i].Source = NaN) =>
        /\ error \notin {"AttributeError", "TypeError"}
        /\ \A i \in DOMAIN dataset :
              dataset[i].Source = NaN => dataset[i] \in Range(renewable)

\* C8: the working dataset is the filtered input, whatever callbacks ran,
\* and the tables are those of the selection the controls hold, computed
\* from the whole working dataset: nothing of an earlier selection remains.
C8_DependsOnSelectionOnly ==
    LET working == RenewableFilter(dataset)
        fd == Query(working, year_value, state_value, source_value)
    IN /\ Constructed => renewable = working
       /\ Served => tableA = GroupByStateSource(fd) /\ tableB = GroupByYearSource(fd)

C8_Witness ==
    /\ Served
    /\ year_value # <<Min(Range(years)), Max(Range(years))>>
    /\ state_value # Range(top_10_states)
    /\ tableA # {}
    /\ Len(renewable) > Cardinality({i \in DOMAIN renewable : Satisfies(renewable[i])})

\* C9, as claimed: states of equal count stand in the default-states list
\* in the order in which the working dataset first holds them.
C9_FirstEncounteredTies ==
    Constructed =>
        \A i \in DOMAIN top_10_states : \A j \in DOMAIN top_10_states :
            (i < j /\ CountOf(top_10_states[i]) = CountOf(top_10_states[j]))
                => FirstRow(top_10_states[i]) < FirstRow(top_10_states[j])

\* C9, as amended: the default-states list is in non-increasing order of
\* count; the order among states of equal count is not determined by the
\* order of the rows.
C9_OrderedByCount ==
    Constructed =>
        \A i \in DOMAIN top_10_states : \A j \in DOMAIN top_10_states :
            i < j => CountOf(top_10_states[i]) >= CountOf(top_10_states[j])

C9_Witness ==
    /\ Constructed
    /\ \E i \in DOMAIN top_10_states : \E j \in DOMAIN top_10_states :
          /\ i < j
          /\ CountOf(top_10_states[i]) = CountOf(top_10_states[j])
          /\ FirstRow(top_10_states[i]) > FirstRow(top_10_states[j])

\* the default selection: the full year range, the default states, every
\* source
IsInitial ==
    /\ year_value = <<Min(Unique(renewable, "FiscalYear")),
                      Max(Unique(renewable, "FiscalYear"))>>
    /\ state_value = Range(top_10_states)
    /\ source_value = ToJson(Unique(renewable, "Source"))

\* C10, as claimed: once the selection is not the default selection, no
\* control change makes it the default selection again.
C10_NoReturnToInitial ==
    [][(Served /\ ~IsInitial) => ~IsInitial']_vars

\* C10, as amended: the page loads with the default selection; a control
\* change sets one control to another value and leaves the other two, so a
\* change of the default selection gives a modified one (and a modified
\* selection becomes the default one again only by setting its last
\* differing control back).
C10_Transitions ==
    [][/\ pc = "built" => (Served /\ IsInitial)'
       /\ Served =>
            /\ IsInitial => ~IsInitial'
            /\ Cardinality({c \in 1..3 :
                  <<year_value, state_value, source_value>>[c]
                      # <<year_value', state_value', source_value'>>[c]}) = 1]_vars

C10_Witness ==
    /\ Served
    /\ ~IsInitial
    /\ tableA # {}

====
